---- MODULE Spec2Model ----
(***************************************************************************)
(* discord-emoji-downloader: the emoji collector (extractEmojiUrls) and    *)
(* the download pipeline (downloadAndProcessEmojis) of emoji-processor.ts. *)
(*                                                                         *)
(* A string is the sequence of its pieces, so that the URL rewrite and the *)
(* name sanitising are computed piece by piece as the patterns of the      *)
(* source do. A piece is one character (UTF-16 code unit), except that the *)
(* literal texts the source looks for or inserts are one piece each:       *)
(* "cdn.discordapp.com/emojis", "size=", "animated=true", ".webp", and the *)
(* configured directory names. No string of the model spells one of these  *)
(* texts character by character.                                           *)
(***************************************************************************)
EXTENDS Integers, Sequences, FiniteSets, TLC

\* ------------------------------------------------------------------ bounds

\* Longest picker content (in thumbnails) drawn from Thumbs at Init.
MaxCatalogLen == 3

\* Number of thumbnails the virtualised picker renders at a time.
WindowRows == 2

\* Length of the long picker content, enough to keep the scan growing
\* until the round cap.
LongLen == 19

\* Longest list of descriptors handed to the pipeline.
MaxItems == 3

\* Bytes of a non-empty downloaded payload.
PayloadLen == 3

\* Bytes of a non-empty encoded image.
EncodedLen == 2

\* Longest query of a thumbnail URL (in pieces) given to the callback.
MaxSrcLen == 4

\* Longest thumbnail label (in pieces) given to the callback.
MaxAltLen == 3

\* Longest picker content (in thumbnails) a server shows during a run.
MaxRunCatalogLen == 1

\* ------------------------------------------------------- program constants

maxScrollAttempts == 50

scrollIncrement == 200

StagnationLimit == 3

\* --------------------------------------------------------- string helpers

Min(S) == CHOOSE x \in S : \A y \in S : x <= y

Digit == {"0", "1", "2", "3", "4", "5", "6", "7", "8", "9"}

DigitSeq == <<"0", "1", "2", "3", "4", "5", "6", "7", "8", "9">>

\* The decimal digits of n (n < 100).
Decimal(n) ==
    IF n < 10 THEN <<DigitSeq[n + 1]>>
    ELSE <<DigitSeq[(n \div 10) + 1], DigitSeq[(n % 10) + 1]>>

Lower == {"a", "b", "c", "d", "e", "f", "g", "h", "i", "j", "k", "l", "m",
          "n", "o", "p", "q", "r", "s", "t", "u", "v", "w", "x", "y", "z"}

Upper == {"A", "B", "C", "D", "E", "F", "G", "H", "I", "J", "K", "L", "M",
          "N", "O", "P", "Q", "R", "S", "T", "U", "V", "W", "X", "Y", "Z"}

\* The character class [a-zA-Z0-9_-] of the sanitising expression.
NameChars == Lower \cup Upper \cup Digit \cup {"_", "-"}

\* p occurs in s at position i.
IsAt(s, i, p) ==
    /\ i >= 1
    /\ i + Len(p) - 1 <= Len(s)
    /\ SubSeq(s, i, i + Len(p) - 1) = p

\* String.prototype.includes
Includes(s, p) == \E i \in 1..(Len(s) + 1) : IsAt(s, i, p)

\* "cdn.discordapp.com/emojis"
CdnEmojis == <<"cdn.discordapp.com/emojis">>

\* "animated=true"
AnimatedFlag == <<"animated=true">>

\* "size="
SizeKey == <<"size=">>

\* "size=512"
Size512 == <<"size=", "5", "1", "2">>

\* --------------------------------------------- URL and name normalisation

\* Positions where /size=\d+/ matches.
SizeMatches(src) ==
    {i \in 1..Len(src) :
        /\ IsAt(src, i, SizeKey)
        /\ i + Len(SizeKey) <= Len(src)
        /\ src[i + Len(SizeKey)] \in Digit}

\* Last position of the (greedy) digit run that starts at j.
DigitRunEnd(src, j) ==
    CHOOSE k \in j..Len(src) :
        /\ \A m \in j..k : src[m] \in Digit
        /\ k = Len(src) \/ src[k + 1] \notin Digit

\* Mutant: every match of the size parameter is replaced (the g flag added).
RECURSIVE ReplaceSizeAll(_)
ReplaceSizeAll(src) ==
    IF SizeMatches(src) = {} THEN src
    ELSE LET i == Min(SizeMatches(src))
             k == DigitRunEnd(src, i + Len(SizeKey))
         IN  SubSeq(src, 1, i - 1) \o Size512
                 \o ReplaceSizeAll(SubSeq(src, k + 1, Len(src)))

\* src.replace(/size=\d+/, 'size=512'): the first match only.
ReplaceSize(src) ==
    IF SizeMatches(src) = {} THEN src
    ELSE LET i == Min(SizeMatches(src))
             k == DigitRunEnd(src, i + Len(SizeKey))
         IN  SubSeq(src, 1, i - 1) \o Size512 \o SubSeq(src, k + 1, Len(src))

\* Lines 266-274: the URL of the descriptor built from a thumbnail's src.
NormalizeUrl(src) ==
    LET isAnimated == Includes(src, AnimatedFlag)
        replaced == ReplaceSize(src)
    IN  IF isAnimated /\ ~Includes(replaced, AnimatedFlag)
        THEN replaced \o <<"&">> \o AnimatedFlag
        ELSE replaced

\* name.replace(/^:/, '')
StripLeadingColon(s) == IF Len(s) > 0 /\ s[1] = ":" THEN Tail(s) ELSE s

\* Mutant: the trailing colon is left in place.
StripTrailingColonNever(s) == s

\* name.replace(/:$/, '')
StripTrailingColon(s) ==
    IF Len(s) > 0 /\ s[Len(s)] = ":" THEN SubSeq(s, 1, Len(s) - 1) ELSE s

\* Mutant: no character is replaced.
ReplaceInvalidNever(s) == s

\* name.replace(/[^a-zA-Z0-9_-]/g, '_')
ReplaceInvalid(s) == [i \in 1..Len(s) |-> IF s[i] \in NameChars THEN s[i] ELSE "_"]

\* Lines 277-281: the name of the descriptor built from a thumbnail's alt.
SanitizeName(alt) == ReplaceInvalid(StripTrailingColon(StripLeadingColon(alt)))

\* The descriptor { url, name } the scan builds from one thumbnail.
DescriptorOf(t) == [url |-> NormalizeUrl(t.src), name |-> SanitizeName(t.alt)]

\* ------------------------------------------------------------ the picker

\* Thumbnails (img elements) the section may hold: src and alt.
\*   T1, T2  the same emoji requested at two sizes (one normalised URL)
\*   T3      another emoji, animated, with the same label as T1
\*   T4      an emoji without size parameter and without label
\*   T5      an emoji with two size parameters and a label that spells a path (../b c)
\*   T6      an image that is not a CDN emoji
T1 == [src |-> CdnEmojis \o <<"/", "1", "?", "size=", "6", "4">>,
       alt |-> <<":", "a", ":">>]

T2 == [src |-> CdnEmojis \o <<"/", "1", "?", "size=", "1", "2", "8">>,
       alt |-> <<":", "a", ":">>]

T3 == [src |-> CdnEmojis \o <<"/", "2", "?", "size=", "6", "4", "&">>
                 \o AnimatedFlag,
       alt |-> <<":", "a", ":">>]

T4 == [src |-> CdnEmojis \o <<"/", "3">>, alt |-> << >>]

T5 == [src |-> CdnEmojis \o <<"/", "4", "?", "size=", "9", "6", "&",
                              "size=", "1", "6">>,
       alt |-> <<":", ".", ".", "/", "b", " ", "c", ":">>]

T6 == [src |-> <<"x", "/", "9", "?", "size=", "6", "4">>,
       alt |-> <<":", "z", ":">>]

Thumbs == {T1, T2, T3, T4, T5, T6}

\* Sequences over S of length at most n.
SeqUpTo(S, n) == UNION {[1..k -> S] : k \in 0..n}

\* The i-th thumbnail of the long content: emoji number i, label :e<i>:.
LongThumb(i) ==
    LET id == <<DigitSeq[(i \div 10) + 1], DigitSeq[(i % 10) + 1]>>
    IN  [src |-> CdnEmojis \o <<"/">> \o id
                   \o <<"?", "size=", "6", "4">>,
         alt |-> <<":", "e">> \o id \o <<":">>]

LongCatalog == [i \in 1..LongLen |-> LongThumb(i)]

\* The contents of the section, top to bottom, that a run may meet.
Catalogs == SeqUpTo(Thumbs, MaxCatalogLen) \cup {LongCatalog}

\* What serverEmojiSection.nextElementSibling may be: null, an element
\* carrying the class categorySection_c656ac, or any other element.
Siblings == {"none", "section", "other"}

\* Every thumbnail a run may meet.
AllThumbs == Thumbs \cup {LongThumb(i) : i \in 1..LongLen}

\* The descriptor of each thumbnail, computed once.
Descriptors == [t \in AllThumbs |-> DescriptorOf(t)]

\* Whether each thumbnail matches img[src*="cdn.discordapp.com/emojis"].
IsCdnEmoji == [t \in AllThumbs |-> Includes(t.src, CdnEmojis)]

\* ------------------------------------------------------------------ state

VARIABLES
    \* the emoji-processor source in use
    variant,            \* "named": { url, name } descriptors; "urls": URL strings
    \* the session: the page the collector runs in
    catalog,            \* the section's thumbnails, top to bottom
    scrollerPresent,    \* the scroller element exists
    sectionPresent,     \* the category section exists
    renderPos,          \* number of thumbnails above the rendered window
    nextSibling,        \* serverEmojiSection.nextElementSibling
    scrollTop,          \* emojiPickerContainer.scrollTop
    \* extractEmojiUrls
    cpc,                \* "idle", "start", "loop", "waiting", "returned", "failed"
    emojiData,
    emojisWithNames,
    previousEmojiCount,
    currentEmojiCount,
    scrollAttempts,
    noNewEmojisCount,
    thrown,             \* message of the Error thrown, "" if none
    result,             \* the array returned
    \* observations of the run
    lookups,            \* querySelector calls made
    scans,              \* scans of the section made
    scrolls,            \* scrollTo calls made
    waits,              \* settle waits completed
    seenIdx,            \* positions of the catalog present in some scan
    added,              \* descriptors appended by the latest scan
    stagnantRun,        \* latest consecutive scans that appended nothing
    sawBoundary,        \* the latest scan had the next section as next sibling
    exitReason,         \* "", "boundary", "stagnation", "cap"
    \* downloadAndProcessEmojis
    emojis,             \* the descriptors passed in
    server,             \* the server passed in
    ppc,                \* "idle", "start", "fetch", "body", "sharp", "write", "read", "done"
    index,              \* the loop's index (0-based)
    bufferLen,          \* buffer.length
    resizedLen,         \* resizedImage.length
    filePath,           \* the destination computed for the item
    fileSize,           \* the size read back
    sizeLine,           \* the latest console.log line of a read-back
    files,              \* the file system: path -> bytes stored
    errLog,             \* console.error lines of this call
    \* observations of the call
    inFlight,           \* operations awaited and not yet settled
    fetchLog,           \* indices whose fetch was started, in order
    writeLog,           \* files written by this call: index and path, in order
    verified,           \* indices whose read-back completed
    outcome,            \* per index, the first fault the item met ("ok" if none)
    calls,              \* calls of the pipeline so far
    savedFirst,         \* indices written by the first call
    pathsAfterFirst,    \* paths on disk when the first call returned
    \* one call of the forEach callback
    img,                \* the img element passed to the callback: src and alt
    built,              \* the descriptor the callback built, << >> before the call
    \* the run (index.ts)
    opc,                \* the statement the run is at
    awaiting,           \* the await of discord.ts the run is suspended on
    serverIdx,          \* position of the for loop in env.servers (0 before it)
    browser,            \* "none", "open", "closed"
    closeCalls,         \* calls of browser.close
    pickerOpen,         \* the emoji picker is open on the page
    console,            \* lines logged by index.ts (the dump of line 61 left out)
    failure,            \* the error thrown inside the try, NoFailure if none
    filesAtThrow,       \* the file system when that error was thrown
    callLog,            \* <<server, function>> for every call made in the loop
    completed,          \* servers whose iteration ran to its end, in order
    failedItems         \* console.error lines of the pipeline over the run

sessionVars == <<catalog, scrollerPresent, sectionPresent, renderPos, nextSibling,
                 scrollTop>>

collectVars == <<cpc, emojiData, emojisWithNames, previousEmojiCount,
                 currentEmojiCount, scrollAttempts, noNewEmojisCount, thrown, result>>

observedVars == <<lookups, scans, scrolls, waits, seenIdx, added, stagnantRun,
                  sawBoundary, exitReason>>

processVars == <<emojis, server, ppc, index, bufferLen, resizedLen, filePath, fileSize, sizeLine, files,
                 errLog>>

calledVars == <<inFlight, fetchLog, writeLog, verified, outcome, calls, savedFirst,
                pathsAfterFirst>>

callbackVars == <<img, built>>

collectorSide == <<sessionVars, collectVars, observedVars>>

pipelineSide == <<processVars, calledVars>>

runVars == <<opc, awaiting, serverIdx, browser, closeCalls, pickerOpen, console, failure,
             filesAtThrow, callLog, completed, failedItems>>

\* What the collector's steps leave alone, and what the pipeline's steps do.
besideCollector == <<variant, pipelineSide, callbackVars, runVars>>

besidePipeline == <<variant, collectorSide, callbackVars, runVars>>

vars == <<variant, collectorSide, pipelineSide, callbackVars, runVars>>

\* ----------------------------------------------------------- the session

\* Positions of the catalog inside the rendered window.
Visible(cat, pos) == {i \in 1..Len(cat) : pos < i /\ i <= pos + WindowRows}

\* The img elements currently rendered inside the section, in document order.
Rendered(cat, pos) == [k \in 1..Cardinality(Visible(cat, pos)) |-> cat[pos + k]]

\* Mutant: querySelector in place of querySelectorAll: the first match only.
QuerySelectorFirst(imgs) ==
    LET all == SelectSeq(imgs, LAMBDA t : IsCdnEmoji[t])
    IN  IF all = << >> THEN all ELSE <<Head(all)>>

\* serverEmojiSection.querySelectorAll('img[src*="cdn.discordapp.com/emojis"]')
QuerySelectorAll(imgs) == SelectSeq(imgs, LAMBDA t : IsCdnEmoji[t])

\* The scroll offset the browser keeps after scrollTo(0, y): clamped to the content.
ScrollTo(cat, y) == IF y > scrollIncrement * Len(cat) THEN scrollIncrement * Len(cat) ELSE y

\* Mutant: the null test inverted, the class never looked at.
NextIsCategorySectionInverted(sibling) == sibling = "none"

\* nextSection && nextSection.classList.contains('categorySection_c656ac')
NextIsCategorySection(sibling) == sibling = "section"

\* ------------------------------------------------------- extractEmojiUrls

\* What a scan keeps of a thumbnail: the descriptor (lines 277-286), or its
\* URL alone in the source that collects URL strings (lines 86-97).
Collected(d) == IF variant = "named" THEN d ELSE d.url

\* Mutant: the membership test forgotten, every thumbnail is appended.
AddAlways(d, acc) ==
    [data |-> acc.data \cup {d.url}, list |-> Append(acc.list, Collected(d))]

\* Mutant: the push forgotten, a new URL enters the set only.
AddToSetOnly(d, acc) == [data |-> acc.data \cup {d.url}, list |-> acc.list]

\* Lines 283-287: only add if the URL has not been seen before. In the
\* source that collects URL strings (line 97, urls.add) the list is the
\* insertion order of the Set, which Array.from returns (line 129).
AddIfNew(d, acc) ==
    IF d.url \notin acc.data
    THEN [data |-> acc.data \cup {d.url}, list |-> Append(acc.list, Collected(d))]
    ELSE acc

\* Lines 265-288: emojis.forEach over the rendered thumbnails.
RECURSIVE ForEachEmoji(_, _)
ForEachEmoji(imgs, acc) ==
    IF imgs = << >> THEN acc
    ELSE ForEachEmoji(Tail(imgs), AddIfNew(Descriptors[Head(imgs)], acc))

\* Mutant: the loop condition off by one.
LoopContinuesOneMore(attempts) == attempts <= maxScrollAttempts

\* Line 260: the loop condition.
LoopContinues(attempts) == attempts < maxScrollAttempts

\* Lines 301-310: the stagnation counter after a scan.
NextNoNewCount(current, previous, count) ==
    IF current = previous THEN count + 1 ELSE 0

\* Mutant: the limit compared with > instead of >=.
StagnationReachedLate(count) == count > StagnationLimit

\* Line 303: stop after this many consecutive scans without growth.
StagnationReached(count) == count >= StagnationLimit

InitSession ==
    /\ catalog \in Catalogs
    /\ scrollerPresent \in BOOLEAN
    /\ sectionPresent \in BOOLEAN
    /\ renderPos = 0
    /\ nextSibling \in Siblings
    /\ scrollTop = 0

InitCollect ==
    /\ cpc = "start"
    /\ emojiData = {}
    /\ emojisWithNames = << >>
    /\ previousEmojiCount = 0
    /\ currentEmojiCount = 0
    /\ scrollAttempts = 0
    /\ noNewEmojisCount = 0
    /\ thrown = ""
    /\ result = << >>

InitObserved ==
    /\ lookups = 0
    /\ scans = 0
    /\ scrolls = 0
    /\ waits = 0
    /\ seenIdx = {}
    /\ added = 0
    /\ stagnantRun = 0
    /\ sawBoundary = FALSE
    /\ exitReason = ""

\* Mutant: the section tested before the scroller.
LookupErrorSectionFirst(scroller, section) ==
    IF ~section THEN "Server emoji section not found"
    ELSE IF ~scroller THEN "Emoji picker container not found"
    ELSE ""

\* Lines 237-250: the message of the Error the lookups throw, "" when both
\* elements are found. The scroller is looked up and tested first.
LookupError(scroller, section) ==
    IF ~scroller THEN "Emoji picker container not found"
    ELSE IF ~section THEN "Server emoji section not found"
    ELSE ""

\* querySelector calls made: the section is looked up only once the scroller
\* was found.
LookupsMade(scroller) == IF scroller THEN 2 ELSE 1

\* Lines 240-242 and 248-250: an element is absent, the evaluation throws.
ThrowNotFound ==
    /\ cpc = "start"
    /\ LookupError(scrollerPresent, sectionPresent) # ""
    /\ cpc' = "failed"
    /\ thrown' = LookupError(scrollerPresent, sectionPresent)
    /\ lookups' = lookups + LookupsMade(scrollerPresent)
    /\ UNCHANGED <<emojiData, emojisWithNames, previousEmojiCount, currentEmojiCount,
                   scrollAttempts, noNewEmojisCount, result>>
    /\ UNCHANGED <<scans, scrolls, waits, seenIdx, added, stagnantRun, sawBoundary,
                   exitReason>>
    /\ UNCHANGED sessionVars
    /\ UNCHANGED besideCollector

\* Lines 237-260: both elements found, the locals initialised, the loop entered.
EnterLoop ==
    /\ cpc = "start"
    /\ LookupError(scrollerPresent, sectionPresent) = ""
    /\ lookups' = lookups + LookupsMade(scrollerPresent)
    /\ emojiData' = {}
    /\ emojisWithNames' = << >>
    /\ previousEmojiCount' = 0
    /\ scrollAttempts' = 0
    /\ noNewEmojisCount' = 0
    /\ IF LoopContinues(0)
       THEN cpc' = "loop" /\ exitReason' = ""
       ELSE cpc' = "returned" /\ exitReason' = "cap"
    /\ UNCHANGED <<currentEmojiCount, thrown, result>>
    /\ UNCHANGED <<scans, scrolls, waits, seenIdx, added, stagnantRun, sawBoundary>>
    /\ UNCHANGED sessionVars
    /\ UNCHANGED besideCollector

\* Lines 261-290: what one scan leaves in the set and the list.
Scanned == ForEachEmoji(QuerySelectorAll(Rendered(catalog, renderPos)),
                        [data |-> emojiData, list |-> emojisWithNames])

\* The part of a round common to its three outcomes: the scan s itself.
ScanEffect(s) ==
    /\ cpc = "loop"
    /\ emojiData' = s.data
    /\ emojisWithNames' = s.list
    /\ currentEmojiCount' = Cardinality(s.data)
    /\ lookups' = lookups
    /\ scans' = scans + 1
    /\ seenIdx' = seenIdx \cup Visible(catalog, renderPos)
    /\ added' = Len(s.list) - Len(emojisWithNames)
    /\ sawBoundary' = (nextSibling = "section")
    /\ stagnantRun' = IF Len(s.list) = Len(emojisWithNames) /\ nextSibling # "section"
                      THEN stagnantRun + 1 ELSE 0

\* Lines 294-298: the next sibling is the next category section: break, return.
RoundBoundary ==
    LET s == Scanned
    IN  /\ ScanEffect(s)
        /\ NextIsCategorySection(nextSibling)
        /\ cpc' = "returned"
        /\ result' = s.list
        /\ exitReason' = "boundary"
        /\ UNCHANGED <<previousEmojiCount, scrollAttempts, noNewEmojisCount, thrown>>
        /\ UNCHANGED <<scrolls, waits>>
        /\ UNCHANGED sessionVars
        /\ UNCHANGED besideCollector

\* Lines 301-307: the third consecutive scan without growth: break, return.
RoundStagnant ==
    LET s == Scanned
        count == NextNoNewCount(Cardinality(s.data), previousEmojiCount,
                                noNewEmojisCount)
    IN  /\ ScanEffect(s)
        /\ ~NextIsCategorySection(nextSibling)
        /\ StagnationReached(count)
        /\ noNewEmojisCount' = count
        /\ cpc' = "returned"
        /\ result' = s.list
        /\ exitReason' = "stagnation"
        /\ UNCHANGED <<previousEmojiCount, scrollAttempts, thrown>>
        /\ UNCHANGED <<scrolls, waits>>
        /\ UNCHANGED sessionVars
        /\ UNCHANGED besideCollector

\* Lines 308-318: otherwise scroll by the increment and start the settle wait.
RoundScroll ==
    LET s == Scanned
        count == NextNoNewCount(Cardinality(s.data), previousEmojiCount,
                                noNewEmojisCount)
    IN  /\ ScanEffect(s)
        /\ ~NextIsCategorySection(nextSibling)
        /\ ~StagnationReached(count)
        /\ noNewEmojisCount' = count
        /\ scrollTop' = ScrollTo(catalog, scrollTop + scrollIncrement)
        /\ scrolls' = scrolls + 1
        /\ cpc' = "waiting"
        /\ UNCHANGED <<previousEmojiCount, scrollAttempts, thrown, result, exitReason>>
        /\ UNCHANGED waits
        /\ UNCHANGED <<catalog, scrollerPresent, sectionPresent, renderPos, nextSibling>>
        /\ UNCHANGED besideCollector

\* While the collector waits the picker may render what was scrolled into
\* view (at most one more thumbnail per wait, never past the scroll offset)
\* and the element after the section may change.
Rerender ==
    /\ renderPos' \in {renderPos} \cup
                      {p \in {renderPos + 1} : p * scrollIncrement <= scrollTop}
    /\ nextSibling' \in Siblings
    /\ UNCHANGED <<catalog, scrollerPresent, sectionPresent, scrollTop>>

\* Lines 316-321 and 260: the 1500 ms timer fires; the counters advance and
\* the loop condition is tested again.
SettleWait ==
    /\ cpc = "waiting"
    /\ Rerender
    /\ waits' = waits + 1
    /\ previousEmojiCount' = currentEmojiCount
    /\ scrollAttempts' = scrollAttempts + 1
    /\ IF LoopContinues(scrollAttempts + 1)
       THEN cpc' = "loop" /\ result' = result /\ exitReason' = exitReason
       ELSE cpc' = "returned" /\ result' = emojisWithNames /\ exitReason' = "cap"
    /\ UNCHANGED <<emojiData, emojisWithNames, currentEmojiCount, noNewEmojisCount,
                   thrown>>
    /\ UNCHANGED <<lookups, scans, scrolls, seenIdx, added, stagnantRun, sawBoundary>>
    /\ UNCHANGED besideCollector


\* ------------------------------------------- the forEach callback alone

\* The pieces the query of a thumbnail URL is drawn from.
SrcPieces == {"size=", "7", "&", "animated=true"}

\* The pieces a thumbnail label is drawn from.
AltPieces == {":", "a", "/"}

\* The img elements the callback is studied on: CDN emojis with any query
\* and any label within the bounds.
CallbackImgs ==
    {[src |-> CdnEmojis \o <<"/", "1", "?">> \o q, alt |-> a] :
        q \in SeqUpTo(SrcPieces, MaxSrcLen), a \in SeqUpTo(AltPieces, MaxAltLen)}

InitCallback ==
    /\ img \in CallbackImgs
    /\ built = << >>

\* Lines 265-287: the callback on one img element, the set being empty.
BuildDescriptor ==
    /\ built = << >>
    /\ built' = AddIfNew(DescriptorOf(img), [data |-> {}, list |-> << >>]).list
    /\ UNCHANGED img
    /\ UNCHANGED <<variant, collectorSide, pipelineSide, runVars>>

\* The callback's variables while the collector or the pipeline is studied.
IdleCallback ==
    /\ img = [src |-> << >>, alt |-> << >>]
    /\ built = << >>

\* ----------------------------------------------- downloadAndProcessEmojis

\* config.outputBaseDir: process.cwd() + '/' + env.outputBaseDir, "/cwd/emojis"
OutputBaseDir == <<"/", "cwd", "/", "emojis">>

\* env.servers: a configuration of two servers, each with the name shown in
\* Discord, the output folder and the channel to open.
Servers == <<[name |-> "Cozyhive", folder |-> <<"Cozyhive">>, channel |-> "general"],
             [name |-> "Online Hub", folder |-> <<"Online_Hub">>, channel |-> "lounge"]>>

\* ".webp"
WebpExt == <<".webp">>

\* path.join of three segments. The segments of the model hold no ".", ".."
\* or empty segment, so joining them with the separator is already normal.
\* The segments of a path: the runs of pieces between separators.
RECURSIVE Segments(_, _)
Segments(p, seg) ==
    IF p = << >> THEN <<seg>>
    ELSE IF Head(p) = "/" THEN <<seg>> \o Segments(Tail(p), << >>)
    ELSE Segments(Tail(p), Append(seg, Head(p)))

\* path.normalize on the segments of an absolute path: empty and "."
\* segments are dropped, ".." drops the segment before it (none at the root).
RECURSIVE Resolve(_, _)
Resolve(segs, kept) ==
    IF segs = << >> THEN kept
    ELSE LET seg == Head(segs)
         IN  IF seg = << >> \/ seg = <<".">> THEN Resolve(Tail(segs), kept)
             ELSE IF seg = <<".", ".">>
             THEN Resolve(Tail(segs),
                          IF kept = << >> THEN kept ELSE SubSeq(kept, 1, Len(kept) - 1))
             ELSE Resolve(Tail(segs), Append(kept, seg))

\* The absolute path spelled by segments.
RECURSIVE Absolute(_)
Absolute(segs) ==
    IF segs = << >> THEN << >>
    ELSE <<"/">> \o Head(segs) \o Absolute(Tail(segs))

\* path.join(a, b, c), a absolute: joined with the separator and normalised.
PathJoin(a, b, c) ==
    LET kept == Resolve(Segments(a \o <<"/">> \o b \o <<"/">> \o c, << >>), << >>)
    IN  IF kept = << >> THEN <<"/">> ELSE Absolute(kept)

\* Mutant: the name numbered with the count of files already on disk, so as
\* not to replace an existing file.
FileNameNumbered(emoji, i) ==
    emoji.name \o <<"_", DigitSeq[(Cardinality(DOMAIN files) % 10) + 1]>> \o WebpExt

\* Line 194: "emoji_<i+1>", the base name in the source that takes URL strings.
PositionalName(i) == <<"emoji_">> \o Decimal(i + 1)

\* Line 389: the file name of an item (line 194 in the source that takes
\* URL strings).
FileName(emoji, i) ==
    IF variant = "named" THEN emoji.name \o WebpExt ELSE PositionalName(i) \o WebpExt

\* Line 390: the destination of an item.
FilePath(emoji, i) == PathJoin(OutputBaseDir, server.folder, FileName(emoji, i))

\* Mutant: response.ok is never looked at.
ResponseRejectedNever(ok) == FALSE

\* Line 358: the response is refused.
ResponseRejected(ok) == ~ok

\* Lines 366 and 384: a buffer is empty.
BufferEmpty(len) == len = 0

\* The URL of an item: emoji.url, or the item itself in the source that
\* takes URL strings (line 152).
UrlOf(emoji) == IF variant = "named" THEN emoji.url ELSE emoji

\* Line 371: the animated option given to sharp.
SharpAnimated(emoji) == Includes(UrlOf(emoji), AnimatedFlag)

\* Mutant: the loop steps over every other item.
NextIndexSkip(i) == i + 2

\* Line 352: the index the for loop takes after i.
NextIndex(i) == i + 1

\* Line 391: Bun.write stores the bytes at the path, replacing what was there.
BunWrite(fs, path, len) ==
    [p \in DOMAIN fs \cup {path} |-> IF p = path THEN len ELSE fs[p]]

\* No line logged yet.
NoLine == [level |-> "none", text |-> "", bytes |-> 0]

\* Line 397: the console.log line that follows the read-back.
SizeLine(size) == [level |-> "log", text |-> "File size on disk", bytes |-> size]

\* Line 399: the console.error line of a failed item (line 204, without the
\* name, in the source that takes URL strings).
FailureLine(i, emoji, msg) ==
    IF variant = "named"
    THEN [index |-> i + 1, name |-> emoji.name, server |-> server.name, message |-> msg]
    ELSE [index |-> i + 1, server |-> server.name, message |-> msg]

\* The descriptors collect can hand over: those of the CDN emojis. The
\* pipeline is called on the lists it returns for the contents that show
\* them in the order T1, T3, T4, T5: no URL twice.
ItemPool == {Descriptors[t] : t \in {u \in Thumbs : IsCdnEmoji[u]}}

\* The order the descriptors are handed over in: the order of a picker
\* content T1, T3, T4, T5.
ItemOrder == <<Descriptors[T1], Descriptors[T3], Descriptors[T4], Descriptors[T5]>>

\* The position of a descriptor in that order.
Rank(d) == CHOOSE k \in 1..Len(ItemOrder) : ItemOrder[k] = d

ItemLists ==
    {l \in SeqUpTo(ItemPool, MaxItems) :
        \A i, j \in 1..Len(l) : i < j => Rank(l[i]) < Rank(l[j])}

\* The lists the source that collects URL strings can hand over.
UrlLists == {[i \in 1..Len(l) |-> l[i].url] : l \in ItemLists}

\* The descriptor the loop is at.
Emoji == emojis[index + 1]

\* response.statusText of a response that is not ok.
StatusTexts == {"Not Found", ""}

\* Line 359: the message of the Error thrown for a response that is not ok.
FetchError(statusText) == "Failed to fetch emoji: " \o statusText

Op(name, i) == [op |-> name, index |-> i]

\* err.message of an error raised inside fetch, sharp or Bun.
LibraryError == "<library error>"

\* The first fault an item meets is the one recorded for it: "early" when it
\* arises in the fetch, the payload, the transform, the output or the write,
\* "read" when it arises in the read-back.
Fault(kind) ==
    outcome' = IF outcome[index] = "ok" THEN [outcome EXCEPT ![index] = kind] ELSE outcome

InitProcess ==
    /\ emojis \in IF variant = "named" THEN ItemLists ELSE UrlLists
    /\ server = Servers[Len(Servers)]
    /\ ppc = "start"
    /\ index = 0
    /\ bufferLen = 0
    /\ resizedLen = 0
    /\ filePath = << >>
    /\ fileSize = 0
    /\ sizeLine = NoLine
    /\ files = << >>
    /\ errLog = << >>
    /\ inFlight = {}
    /\ fetchLog = << >>
    /\ writeLog = << >>
    /\ verified = {}
    /\ outcome = [i \in 0..(Len(emojis) - 1) |-> "ok"]
    /\ calls = 0
    /\ savedFirst = {}
    /\ pathsAfterFirst = {}

\* Lines 352-357: the loop takes index i: the item's fetch is started, or
\* the loop is over and the call returns.
Loop(i) ==
    /\ index' = i
    /\ IF i < Len(emojis)
       THEN /\ ppc' = "fetch"
            /\ fetchLog' = Append(fetchLog, i)
            /\ inFlight' = (inFlight \ {Op(ppc, index)}) \cup {Op("fetch", i)}
       ELSE /\ ppc' = "done"
            /\ fetchLog' = fetchLog
            /\ inFlight' = inFlight \ {Op(ppc, index)}

\* The awaited operation settled and the next one of the item is awaited.
Await(op) ==
    /\ ppc' = op
    /\ index' = index
    /\ inFlight' = (inFlight \ {Op(ppc, index)}) \cup {Op(op, index)}
    /\ fetchLog' = fetchLog
    /\ errLog' = errLog

\* Mutant: no catch clause: the error leaves the function.
Rethrown(msg) ==
    /\ ppc' = "threw"
    /\ index' = index
    /\ inFlight' = inFlight \ {Op(ppc, index)}
    /\ fetchLog' = fetchLog
    /\ errLog' = errLog

\* Lines 398-400: the catch clause logs the item and the loop goes on.
Caught(msg) ==
    /\ errLog' = Append(errLog, FailureLine(index, Emoji, msg))
    /\ Loop(NextIndex(index))

\* The indices this call wrote a file for.
Saved == {writeLog[k].index : k \in 1..Len(writeLog)}

\* The pipeline is called with the list.
Call ==
    /\ ppc = "start"
    /\ calls' = calls + 1
    /\ Loop(0)
    /\ UNCHANGED <<emojis, server, bufferLen, resizedLen, filePath, fileSize, sizeLine, files, errLog>>
    /\ UNCHANGED <<writeLog, verified, outcome, savedFirst, pathsAfterFirst>>
    /\ UNCHANGED besidePipeline

\* The pipeline is called once more with the same list and the same server.
CallAgain ==
    /\ ppc = "done"
    /\ calls = 1
    /\ calls' = 2
    /\ savedFirst' = Saved
    /\ pathsAfterFirst' = DOMAIN files
    /\ errLog' = << >>
    /\ writeLog' = << >>
    /\ verified' = {}
    /\ outcome' = [i \in 0..(Len(emojis) - 1) |-> "ok"]
    /\ index' = 0
    /\ IF 0 < Len(emojis)
       THEN ppc' = "fetch" /\ fetchLog' = <<0>> /\ inFlight' = {Op("fetch", 0)}
       ELSE ppc' = "done" /\ fetchLog' = << >> /\ inFlight' = {}
    /\ UNCHANGED <<emojis, server, bufferLen, resizedLen, filePath, fileSize, sizeLine, files>>
    /\ UNCHANGED besidePipeline

\* Line 357: fetch rejects (no response).
FetchRejects ==
    /\ ppc = "fetch"
    /\ Fault("early")
    /\ Caught(LibraryError)
    /\ UNCHANGED <<emojis, server, bufferLen, resizedLen, filePath, fileSize, sizeLine, files>>
    /\ UNCHANGED <<writeLog, verified, calls, savedFirst, pathsAfterFirst>>
    /\ UNCHANGED besidePipeline

\* Lines 357-362: fetch resolves; a response that is not ok is thrown away,
\* otherwise its body is read.
FetchResolves ==
    /\ ppc = "fetch"
    /\ \E ok \in BOOLEAN :
          /\ IF ok THEN outcome' = outcome ELSE Fault("early")
          /\ IF ResponseRejected(ok)
             THEN \E statusText \in StatusTexts : Caught(FetchError(statusText))
             ELSE Await("body")
    /\ UNCHANGED <<emojis, server, bufferLen, resizedLen, filePath, fileSize, sizeLine, files>>
    /\ UNCHANGED <<writeLog, verified, calls, savedFirst, pathsAfterFirst>>
    /\ UNCHANGED besidePipeline

\* Line 362: reading the body rejects.
BodyRejects ==
    /\ ppc = "body"
    /\ Fault("early")
    /\ Caught(LibraryError)
    /\ UNCHANGED <<emojis, server, bufferLen, resizedLen, filePath, fileSize, sizeLine, files>>
    /\ UNCHANGED <<writeLog, verified, calls, savedFirst, pathsAfterFirst>>
    /\ UNCHANGED besidePipeline

\* Lines 362-379: the body is read; an empty buffer is thrown away,
\* otherwise sharp is started on it.
BodyResolves ==
    /\ ppc = "body"
    /\ \E len \in {0, PayloadLen} :
          /\ bufferLen' = len
          /\ IF len = 0 THEN Fault("early") ELSE outcome' = outcome
          /\ IF BufferEmpty(len)
             THEN Caught("Downloaded buffer is empty")
             ELSE Await("sharp")
    /\ UNCHANGED <<emojis, server, resizedLen, filePath, fileSize, sizeLine, files>>
    /\ UNCHANGED <<writeLog, verified, calls, savedFirst, pathsAfterFirst>>
    /\ UNCHANGED besidePipeline

\* Lines 371-379: sharp rejects (the payload does not decode or encode).
SharpRejects ==
    /\ ppc = "sharp"
    /\ Fault("early")
    /\ Caught(LibraryError)
    /\ UNCHANGED <<emojis, server, bufferLen, resizedLen, filePath, fileSize, sizeLine, files>>
    /\ UNCHANGED <<writeLog, verified, calls, savedFirst, pathsAfterFirst>>
    /\ UNCHANGED besidePipeline

\* Lines 379-391: sharp resolves; an empty output is thrown away, otherwise
\* the write to the item's path is started.
SharpResolves ==
    /\ ppc = "sharp"
    /\ \E len \in {0, EncodedLen} :
          /\ resizedLen' = len
          /\ IF len = 0 THEN Fault("early") ELSE outcome' = outcome
          /\ IF BufferEmpty(len)
             THEN Caught("Resized buffer is empty") /\ filePath' = filePath
             ELSE Await("write") /\ filePath' = FilePath(Emoji, index)
    /\ UNCHANGED <<emojis, server, bufferLen, fileSize, sizeLine, files>>
    /\ UNCHANGED <<writeLog, verified, calls, savedFirst, pathsAfterFirst>>
    /\ UNCHANGED besidePipeline

\* Line 391: Bun.write rejects; nothing is stored.
WriteRejects ==
    /\ ppc = "write"
    /\ Fault("early")
    /\ Caught(LibraryError)
    /\ UNCHANGED <<emojis, server, bufferLen, resizedLen, filePath, fileSize, sizeLine, files>>
    /\ UNCHANGED <<writeLog, verified, calls, savedFirst, pathsAfterFirst>>
    /\ UNCHANGED besidePipeline

\* Lines 391-396: Bun.write resolves: the file holds the encoded image, and
\* the read-back is started.
WriteResolves ==
    /\ ppc = "write"
    /\ files' = BunWrite(files, filePath, resizedLen)
    /\ writeLog' = Append(writeLog, [index |-> index, path |-> filePath])
    /\ Await("read")
    /\ UNCHANGED <<emojis, server, bufferLen, resizedLen, filePath, fileSize, sizeLine>>
    /\ UNCHANGED <<verified, outcome, calls, savedFirst, pathsAfterFirst>>
    /\ UNCHANGED besidePipeline

\* Line 396: the read-back rejects.
ReadRejects ==
    /\ ppc = "read"
    /\ Fault("read")
    /\ Caught(LibraryError)
    /\ UNCHANGED <<emojis, server, bufferLen, resizedLen, filePath, fileSize, sizeLine, files>>
    /\ UNCHANGED <<writeLog, verified, calls, savedFirst, pathsAfterFirst>>
    /\ UNCHANGED besidePipeline

\* Lines 396-397 and 352: the read-back resolves with the size found on disk
\* (the stored size, or another one), which is logged; the loop goes on.
ReadResolves ==
    /\ ppc = "read"
    /\ \E size \in {files[filePath], files[filePath] - 1} :
          fileSize' = size /\ sizeLine' = SizeLine(size)
    /\ verified' = verified \cup {index}
    /\ errLog' = errLog
    /\ Loop(NextIndex(index))
    /\ UNCHANGED <<emojis, server, bufferLen, resizedLen, filePath, files>>
    /\ UNCHANGED <<writeLog, outcome, calls, savedFirst, pathsAfterFirst>>
    /\ UNCHANGED besidePipeline

NextPipeline ==
    \/ Call
    \/ CallAgain
    \/ FetchRejects
    \/ FetchResolves
    \/ BodyRejects
    \/ BodyResolves
    \/ SharpRejects
    \/ SharpResolves
    \/ WriteRejects
    \/ WriteResolves
    \/ ReadRejects
    \/ ReadResolves

\* ------------------------------------------------------ index.ts: the run

\* The contents the picker of a server may show during a run.
RunCatalogs == SeqUpTo({T1, T3}, MaxRunCatalogLen)

NoFailure == [server |-> 0, step |-> "", message |-> ""]

\* No operation of discord.ts is awaited.
NoAwait == [line |-> 0, on |-> ""]

\* The operation of discord.ts awaited at a line, on the selector built
\* from a configured value ("" when the selector has none).
AwaitAt(l, value) == [line |-> l, on |-> value]

\* discord.ts 13-21: the awaits of loginToDiscord, in order.
LoginAwaits == <<15, 18, 19, 20>>

\* discord.ts 47-54: the awaits of handle2FA once the code was given, in order.
CodeAwaits == <<47, 48, 54>>

\* discord.ts 75-91: the awaits of navigateToServer, in order.
ServerAwaits == <<78, 81, 88, 89, 90>>

\* discord.ts 106-122: the awaits of navigateToChannel, in order.
ChannelAwaits == <<109, 112, 119, 120, 121>>

\* discord.ts 137-151: the awaits of openEmojiPicker, in order.
PickerAwaits == <<139, 140, 141, 146, 147, 148>>

\* The lines of discord.ts that await delay(ms): a timer, which never rejects.
DelayLines == {88, 90, 119, 121, 141, 148}

\* The lines of openEmojiPicker on the selector of the server's tab.
TabLines == {146, 147}

\* The line awaited after line l in a function, 0 after its last one.
After(lines, l) ==
    LET i == CHOOSE k \in 1..Len(lines) : lines[k] = l
    IN  IF i = Len(lines) THEN 0 ELSE lines[i + 1]

\* Line 48
ProcessingLine(name) == <<"Processing server: ", name, "...">>

\* Line 62
FoundLine(n, name) == <<"Found ">> \o Decimal(n) \o <<" emojis in ", name, ".">>

\* Line 72
FinalLine == <<"All emojis from all servers have been downloaded and processed!">>

\* Line 74
ErrorLine(msg) == <<"An error occurred:", msg>>

\* Mutant: the call is not awaited, the run goes on at once.
SettledAtOnce(pc) == TRUE

\* Lines 60 and 65: an awaited call has settled: the function returned or threw.
Settled(pc) == pc \in {"returned", "failed", "done", "threw"}

\* Mutant: the error of the call is swallowed.
RejectedNever(pc) == FALSE

\* Lines 60 and 65: the awaited call threw.
Rejected(pc) == pc \in {"failed", "threw"}

InitRun ==
    /\ opc = "launch"
    /\ awaiting = NoAwait
    /\ serverIdx = 0
    /\ browser = "none"
    /\ closeCalls = 0
    /\ pickerOpen = FALSE
    /\ console = << >>
    /\ failure = NoFailure
    /\ filesAtThrow = << >>
    /\ callLog = {}
    /\ completed = << >>
    /\ failedItems = 0

\* Lines 39 and 73: an error thrown inside the try block reaches the catch clause.
Throw(step, msg) ==
    /\ opc' = "catch"
    /\ failure' = [server |-> serverIdx, step |-> step, message |-> msg]
    /\ filesAtThrow' = files

\* No error: the run goes on at the next statement.
Goto(next) ==
    /\ opc' = next
    /\ failure' = failure
    /\ filesAtThrow' = filesAtThrow

\* A function of discord.ts is called and suspends at its first await.
Enter(fn, lines, value) ==
    /\ Goto(fn)
    /\ awaiting' = AwaitAt(lines[1], value)

\* The operation a function of discord.ts awaits settles: the function goes
\* on to its next await, or returns, or the rejection leaves it.
Resume(fn, lines, value, next) ==
    \E ok \in IF awaiting.line \in DelayLines THEN {TRUE} ELSE BOOLEAN :
        IF ~ok THEN Throw(fn, LibraryError) /\ awaiting' = NoAwait
        ELSE IF After(lines, awaiting.line) = 0 THEN Goto(next) /\ awaiting' = NoAwait
        ELSE Goto(fn) /\ awaiting' = AwaitAt(After(lines, awaiting.line), value)

\* Line 36: puppeteer.launch; when it rejects there is no browser and the
\* run is over.
Launch ==
    /\ opc = "launch"
    /\ \E ok \in BOOLEAN :
          IF ok THEN opc' = "newPage" /\ browser' = "open"
          ELSE opc' = "rejected" /\ browser' = browser
    /\ UNCHANGED <<awaiting, serverIdx, closeCalls, pickerOpen, console, failure,
                   filesAtThrow, callLog, completed, failedItems>>
    /\ UNCHANGED <<variant, collectorSide, pipelineSide, callbackVars>>

\* Line 37: browser.newPage, before the try block: when it rejects the
\* function's promise rejects.
NewPage ==
    /\ opc = "newPage"
    /\ \E ok \in BOOLEAN : opc' = IF ok THEN "loginToDiscord" ELSE "rejected"
    /\ UNCHANGED <<awaiting, serverIdx, browser, closeCalls, pickerOpen, console,
                   failure, filesAtThrow, callLog, completed, failedItems>>
    /\ UNCHANGED <<variant, collectorSide, pipelineSide, callbackVars>>

\* Line 41 (discord.ts 13-21): loginToDiscord is called, then each of its
\* awaits settles: page.goto, the two page.type, page.click.
LoginToDiscord ==
    /\ opc = "loginToDiscord"
    /\ IF awaiting = NoAwait
       THEN Enter("loginToDiscord", LoginAwaits, "")
       ELSE Resume("loginToDiscord", LoginAwaits, "", "handle2FA")
    /\ UNCHANGED <<serverIdx, browser, closeCalls, pickerOpen, console, callLog,
                   completed, failedItems>>
    /\ UNCHANGED <<variant, collectorSide, pipelineSide, callbackVars>>

\* Line 44 (discord.ts 34-56, utils.ts 19-25): handle2FA is called, then each
\* of its awaits settles. The wait for the prompt (36-39) never throws: it
\* gives whether the prompt is shown. When it is, the code is asked for (43;
\* an empty answer throws), typed (47) and submitted (48). The navigation is
\* awaited last (54).
Handle2FA ==
    /\ opc = "handle2FA"
    /\ IF awaiting = NoAwait
       THEN Goto("handle2FA") /\ awaiting' = AwaitAt(36, "")
       ELSE IF awaiting.line = 36
       THEN /\ Goto("handle2FA")
            /\ \E is2FAPromptVisible \in BOOLEAN :
                  awaiting' = AwaitAt(IF is2FAPromptVisible THEN 43 ELSE 54, "")
       ELSE IF awaiting.line = 43
       THEN \E code \in {"", "123456"} :
               IF code = ""
               THEN Throw("handle2FA", "No 2FA code provided") /\ awaiting' = NoAwait
               ELSE Goto("handle2FA") /\ awaiting' = AwaitAt(47, "")
       ELSE Resume("handle2FA", CodeAwaits, "", "for")
    /\ UNCHANGED <<serverIdx, browser, closeCalls, pickerOpen, console, callLog,
                   completed, failedItems>>
    /\ UNCHANGED <<variant, collectorSide, pipelineSide, callbackVars>>

\* Lines 47-48 and 72: the for loop takes the next server, or is over and
\* the last line is logged.
ForServers ==
    /\ opc = "for"
    /\ IF serverIdx < Len(Servers)
       THEN /\ serverIdx' = serverIdx + 1
            /\ console' = Append(console, ProcessingLine(Servers[serverIdx + 1].name))
            /\ opc' = "navigateToServer"
       ELSE /\ serverIdx' = serverIdx
            /\ console' = Append(console, FinalLine)
            /\ opc' = "finally"
    /\ UNCHANGED <<awaiting, browser, closeCalls, pickerOpen, failure, filesAtThrow,
                   callLog, completed, failedItems>>
    /\ UNCHANGED <<variant, collectorSide, pipelineSide, callbackVars>>

\* Line 51 (discord.ts 75-91): navigateToServer is called with server.name,
\* then each of its awaits settles: waitForSelector, evaluate, delay, click,
\* delay.
NavigateToServer ==
    /\ opc = "navigateToServer"
    /\ IF awaiting = NoAwait
       THEN /\ Enter("navigateToServer", ServerAwaits, Servers[serverIdx].name)
            /\ callLog' = callLog \cup {<<serverIdx, "navigateToServer">>}
       ELSE /\ Resume("navigateToServer", ServerAwaits, Servers[serverIdx].name,
                      "navigateToChannel")
            /\ callLog' = callLog
    /\ UNCHANGED <<serverIdx, browser, closeCalls, pickerOpen, console, completed,
                   failedItems>>
    /\ UNCHANGED <<variant, collectorSide, pipelineSide, callbackVars>>

\* Line 54 (discord.ts 106-122): navigateToChannel is called with
\* server.channel, then each of its awaits settles.
NavigateToChannel ==
    /\ opc = "navigateToChannel"
    /\ IF awaiting = NoAwait
       THEN /\ Enter("navigateToChannel", ChannelAwaits, Servers[serverIdx].channel)
            /\ callLog' = callLog \cup {<<serverIdx, "navigateToChannel">>}
       ELSE /\ Resume("navigateToChannel", ChannelAwaits, Servers[serverIdx].channel,
                      "openEmojiPicker")
            /\ callLog' = callLog
    /\ UNCHANGED <<serverIdx, browser, closeCalls, pickerOpen, console, completed,
                   failedItems>>
    /\ UNCHANGED <<variant, collectorSide, pipelineSide, callbackVars>>

\* The value the selector awaited at a line of openEmojiPicker is built
\* from: server.name for the server's tab, none for the emoji button.
PickerValue(l) == IF l \in TabLines THEN Servers[serverIdx].name ELSE ""

\* Line 57 (discord.ts 137-151): openEmojiPicker is called, then each of its
\* awaits settles; the picker is open once the click on the emoji button
\* (140) has resolved.
OpenEmojiPicker ==
    /\ opc = "openEmojiPicker"
    /\ IF awaiting = NoAwait
       THEN /\ Enter("openEmojiPicker", PickerAwaits, "")
            /\ callLog' = callLog \cup {<<serverIdx, "openEmojiPicker">>}
            /\ pickerOpen' = pickerOpen
       ELSE /\ Resume("openEmojiPicker", PickerAwaits,
                      PickerValue(After(PickerAwaits, awaiting.line)),
                      "extractEmojiUrls")
            /\ callLog' = callLog
            /\ pickerOpen' = IF awaiting.line = 140 /\ opc' # "catch" THEN TRUE
                             ELSE pickerOpen
    /\ UNCHANGED <<serverIdx, browser, closeCalls, console, completed, failedItems>>
    /\ UNCHANGED <<variant, collectorSide, pipelineSide, callbackVars>>

\* Line 60: extractEmojiUrls is called on the page as it is then.
ExtractEmojiUrls ==
    /\ opc = "extractEmojiUrls"
    /\ callLog' = callLog \cup {<<serverIdx, "extractEmojiUrls">>}
    /\ Goto("extracting")
    /\ catalog' \in RunCatalogs
    /\ scrollerPresent' \in BOOLEAN
    /\ sectionPresent' \in BOOLEAN
    /\ renderPos' = 0
    /\ nextSibling' \in Siblings
    /\ scrollTop' = 0
    /\ cpc' = "start"
    /\ emojiData' = {}
    /\ emojisWithNames' = << >>
    /\ previousEmojiCount' = 0
    /\ currentEmojiCount' = 0
    /\ scrollAttempts' = 0
    /\ noNewEmojisCount' = 0
    /\ thrown' = ""
    /\ result' = << >>
    /\ lookups' = 0
    /\ scans' = 0
    /\ scrolls' = 0
    /\ waits' = 0
    /\ seenIdx' = {}
    /\ added' = 0
    /\ stagnantRun' = 0
    /\ sawBoundary' = FALSE
    /\ exitReason' = ""
    /\ UNCHANGED <<awaiting, serverIdx, browser, closeCalls, pickerOpen, console,
                   completed, failedItems>>
    /\ UNCHANGED <<variant, pipelineSide, callbackVars>>

\* Lines 60-65: the call of extractEmojiUrls settles. Its error is thrown on;
\* its result is logged and downloadAndProcessEmojis is called with it.
ExtractSettles ==
    /\ opc = "extracting"
    /\ Settled(cpc)
    /\ IF Rejected(cpc)
       THEN /\ Throw("extractEmojiUrls", thrown)
            /\ UNCHANGED <<console, callLog>>
            /\ UNCHANGED pipelineSide
       ELSE /\ Goto("downloading")
            /\ console' = Append(console, FoundLine(Len(result), Servers[serverIdx].name))
            /\ callLog' = callLog \cup {<<serverIdx, "downloadAndProcessEmojis">>}
            /\ emojis' = result
            /\ server' = Servers[serverIdx]
            /\ ppc' = "start"
            /\ index' = 0
            /\ errLog' = << >>
            /\ inFlight' = {}
            /\ fetchLog' = << >>
            /\ writeLog' = << >>
            /\ verified' = {}
            /\ outcome' = [i \in 0..(Len(result) - 1) |-> "ok"]
            /\ calls' = 0
            /\ UNCHANGED <<bufferLen, resizedLen, filePath, fileSize, sizeLine, files,
                           savedFirst, pathsAfterFirst>>
    /\ UNCHANGED <<awaiting, serverIdx, browser, closeCalls, pickerOpen, completed,
                   failedItems>>
    /\ UNCHANGED <<variant, collectorSide, callbackVars>>

\* Lines 65-68: the call of downloadAndProcessEmojis settles.
DownloadSettles ==
    /\ opc = "downloading"
    /\ Settled(ppc)
    /\ IF Rejected(ppc)
       THEN Throw("downloadAndProcessEmojis", LibraryError)
       ELSE Goto("click")
    /\ failedItems' = failedItems + Len(errLog)
    /\ UNCHANGED <<awaiting, serverIdx, browser, closeCalls, pickerOpen, console,
                   callLog, completed>>
    /\ UNCHANGED <<variant, collectorSide, pipelineSide, callbackVars>>

\* Line 68: the emoji button is clicked again, which closes the picker.
ClosePicker ==
    /\ opc = "click"
    /\ \E ok \in BOOLEAN :
          IF ok THEN Goto("delay") /\ pickerOpen' = FALSE
          ELSE Throw("page.click", LibraryError) /\ pickerOpen' = pickerOpen
    /\ UNCHANGED <<awaiting, serverIdx, browser, closeCalls, console, callLog,
                   completed, failedItems>>
    /\ UNCHANGED <<variant, collectorSide, pipelineSide, callbackVars>>

\* Line 69: the delay ends the iteration.
Delay ==
    /\ opc = "delay"
    /\ Goto("for")
    /\ completed' = Append(completed, serverIdx)
    /\ UNCHANGED <<awaiting, serverIdx, browser, closeCalls, pickerOpen, console,
                   callLog, failedItems>>
    /\ UNCHANGED <<variant, collectorSide, pipelineSide, callbackVars>>

\* Lines 73-75: the catch clause logs the error.
CatchError ==
    /\ opc = "catch"
    /\ console' = Append(console, ErrorLine(failure.message))
    /\ Goto("finally")
    /\ UNCHANGED <<awaiting, serverIdx, browser, closeCalls, pickerOpen, callLog,
                   completed, failedItems>>
    /\ UNCHANGED <<variant, collectorSide, pipelineSide, callbackVars>>

\* Lines 75-77: the finally clause calls browser.close and awaits it.
BrowserClose ==
    /\ opc = "finally"
    /\ closeCalls' = closeCalls + 1
    /\ opc' = "closing"
    /\ UNCHANGED <<awaiting, serverIdx, browser, pickerOpen, console, failure,
                   filesAtThrow, callLog, completed, failedItems>>
    /\ UNCHANGED <<variant, collectorSide, pipelineSide, callbackVars>>

\* Lines 77-79: browser.close settles and the run is over. When it resolves
\* the browser is closed, and the page with it; when it rejects the
\* function's promise rejects and the browser may or may not be closed.
CloseSettles ==
    /\ opc = "closing"
    /\ \E ok \in BOOLEAN :
          /\ opc' = IF ok THEN "ended" ELSE "rejected"
          /\ browser' \in IF ok THEN {"closed"} ELSE {"open", "closed"}
    /\ pickerOpen' = IF browser' = "closed" THEN FALSE ELSE pickerOpen
    /\ UNCHANGED <<awaiting, serverIdx, closeCalls, console, failure, filesAtThrow,
                   callLog, completed, failedItems>>
    /\ UNCHANGED <<variant, collectorSide, pipelineSide, callbackVars>>

\* The run's variables while a function is studied alone.
IdleRun == InitRun

\* ------------------------------------------------------- specifications

\* The pipeline's variables while the collector is studied.
IdleProcess ==
    /\ emojis = << >>
    /\ server = Servers[1]
    /\ ppc = "start"
    /\ index = 0
    /\ bufferLen = 0
    /\ resizedLen = 0
    /\ filePath = << >>
    /\ fileSize = 0
    /\ sizeLine = NoLine
    /\ files = << >>
    /\ errLog = << >>
    /\ inFlight = {}
    /\ fetchLog = << >>
    /\ writeLog = << >>
    /\ verified = {}
    /\ outcome = << >>
    /\ calls = 0
    /\ savedFirst = {}
    /\ pathsAfterFirst = {}

\* The collector's variables while the pipeline is studied.
IdleCollector ==
    /\ catalog = << >>
    /\ scrollerPresent = TRUE
    /\ sectionPresent = TRUE
    /\ renderPos = 0
    /\ nextSibling = "none"
    /\ scrollTop = 0
    /\ InitCollect
    /\ InitObserved

\* The emoji-processor source index.ts is written for (line 60).
Named == variant = "named"

\* The emoji-processor source that collects and takes URL strings.
Urls == variant = "urls"

InitCollector ==
    Named /\ InitSession /\ InitCollect /\ InitObserved /\ IdleProcess /\ IdleCallback
          /\ IdleRun

NextCollector ==
    \/ ThrowNotFound
    \/ EnterLoop
    \/ RoundBoundary
    \/ RoundStagnant
    \/ RoundScroll
    \/ SettleWait

SpecCollect == InitCollector /\ [][NextCollector]_vars

\* The collector of the source that returns URL strings.
InitCollectorUrls ==
    Urls /\ InitSession /\ InitCollect /\ InitObserved /\ IdleProcess /\ IdleCallback
         /\ IdleRun

SpecCollectUrls == InitCollectorUrls /\ [][NextCollector]_vars

\* The collector under the scheduling of the page: a timer that was set fires
\* and the evaluation continues.
FairSpecCollect == SpecCollect /\ WF_vars(NextCollector)

\* The pipeline, called on a list the collector can return, then once more.
InitPipeline == Named /\ IdleCollector /\ InitProcess /\ IdleCallback /\ IdleRun

SpecProcess == InitPipeline /\ [][NextPipeline]_vars

\* The pipeline of the source that takes URL strings.
InitPipelineUrls == Urls /\ IdleCollector /\ InitProcess /\ IdleCallback /\ IdleRun

SpecProcessUrls == InitPipelineUrls /\ [][NextPipeline]_vars

\* The callback, called on one img element.
InitScan == Named /\ IdleCollector /\ IdleProcess /\ InitCallback /\ IdleRun

NextScan == BuildDescriptor

SpecScan == InitScan /\ [][NextScan]_vars

\* The run: index.ts, with the collector and the pipeline it calls.
InitOrchestrator ==
    /\ Named
    /\ InitRun
    /\ IdleCallback
    /\ catalog = << >>
    /\ scrollerPresent = TRUE
    /\ sectionPresent = TRUE
    /\ renderPos = 0
    /\ nextSibling = "none"
    /\ scrollTop = 0
    /\ cpc = "idle"
    /\ emojiData = {}
    /\ emojisWithNames = << >>
    /\ previousEmojiCount = 0
    /\ currentEmojiCount = 0
    /\ scrollAttempts = 0
    /\ noNewEmojisCount = 0
    /\ thrown = ""
    /\ result = << >>
    /\ InitObserved
    /\ emojis = << >>
    /\ server = Servers[1]
    /\ ppc = "idle"
    /\ index = 0
    /\ bufferLen = 0
    /\ resizedLen = 0
    /\ filePath = << >>
    /\ fileSize = 0
    /\ sizeLine = NoLine
    /\ files = << >>
    /\ errLog = << >>
    /\ inFlight = {}
    /\ fetchLog = << >>
    /\ writeLog = << >>
    /\ verified = {}
    /\ outcome = << >>
    /\ calls = 0
    /\ savedFirst = {}
    /\ pathsAfterFirst = {}

NextRun ==
    \/ Launch
    \/ NewPage
    \/ LoginToDiscord
    \/ Handle2FA
    \/ ForServers
    \/ NavigateToServer
    \/ NavigateToChannel
    \/ OpenEmojiPicker
    \/ ExtractEmojiUrls
    \/ ThrowNotFound
    \/ EnterLoop
    \/ RoundBoundary
    \/ RoundStagnant
    \/ RoundScroll
    \/ SettleWait
    \/ ExtractSettles
    \/ Call
    \/ FetchRejects
    \/ FetchResolves
    \/ BodyRejects
    \/ BodyResolves
    \/ SharpRejects
    \/ SharpResolves
    \/ WriteRejects
    \/ WriteResolves
    \/ ReadRejects
    \/ ReadResolves
    \/ DownloadSettles
    \/ ClosePicker
    \/ Delay
    \/ CatchError
    \/ BrowserClose
    \/ CloseSettles

SpecRun == InitOrchestrator /\ [][NextRun]_vars

\* ------------------------------------------------------ collector claims

Terminated == cpc \in {"returned", "failed"}

\* The URLs of a list of descriptors.
UrlsOf(list) == {list[i].url : i \in 1..Len(list)}

\* Catalog positions of CDN emojis that were rendered during some scan.
SeenEmojiIdx == {i \in seenIdx : IsCdnEmoji[catalog[i]]}

\* The picker is scanned top to bottom, so a URL is first seen at the least
\* scanned position carrying it.
FirstSeenAt(u) == Min({i \in SeenEmojiIdx : Descriptors[catalog[i]].url = u})

\* C1: the list collect returns holds exactly one descriptor per distinct
\* normalised URL seen in any scanned round, in first-seen order.
C1_Dedup ==
    cpc = "returned" =>
        /\ \A i, j \in 1..Len(result) : i # j => result[i].url # result[j].url
        /\ UrlsOf(result) = {Descriptors[catalog[i]].url : i \in SeenEmojiIdx}
        /\ \A i, j \in 1..Len(result) :
              i < j => FirstSeenAt(result[i].url) < FirstSeenAt(result[j].url)

\* A run that returned two descriptors after meeting the first URL again,
\* under another size, in a later position and in more than one round.
C1_Witness ==
    /\ cpc = "returned"
    /\ Len(result) = 2
    /\ scans >= 2
    /\ \E i, j \in SeenEmojiIdx :
          /\ i + 1 < j
          /\ catalog[i].src # catalog[j].src
          /\ Descriptors[catalog[i]].url = Descriptors[catalog[j]].url

\* C3: three consecutive scans without a new URL (none of them at the
\* boundary) stop collect at the third, with no further scroll and the round
\* counter below the cap; a scan that adds a URL resets the counter.
C3_Stagnation ==
    /\ stagnantRun >= StagnationLimit =>
          /\ stagnantRun = StagnationLimit
          /\ cpc = "returned"
          /\ exitReason = "stagnation"
          /\ result = emojisWithNames
          /\ scrolls = scans - 1
          /\ scrollAttempts < maxScrollAttempts
    /\ (added > 0 /\ ~sawBoundary) => noNewEmojisCount = 0

\* A run that grew, then stagnated three scans in a row and stopped.
C3_Witness ==
    /\ stagnantRun = 3
    /\ cpc = "returned"
    /\ Len(result) > 0
    /\ scans > 3

\* C4: a scan that finds the next section after the section ends collect in
\* that round, whatever the stagnation counter: the round's thumbnails are in
\* the result and the round neither scrolls nor waits.
C4_Boundary ==
    sawBoundary =>
        /\ cpc = "returned"
        /\ exitReason = "boundary"
        /\ result = emojisWithNames
        /\ \A i \in Visible(catalog, renderPos) :
              IsCdnEmoji[catalog[i]] => Descriptors[catalog[i]].url \in UrlsOf(result)
        /\ scrolls = scans - 1
        /\ waits = scans - 1
        /\ scrollAttempts = scans - 1

\* The boundary met in a later round that still added a descriptor, with
\* the stagnation counter at 0.
C4_Witness ==
    /\ sawBoundary
    /\ cpc = "returned"
    /\ scans > 1
    /\ added > 0
    /\ noNewEmojisCount = 0

\* The boundary met after two stagnant rounds.
C4_WitnessStagnant ==
    /\ sawBoundary
    /\ cpc = "returned"
    /\ noNewEmojisCount = 2

RoundsBounded ==
    /\ scans <= maxScrollAttempts
    /\ scrolls <= maxScrollAttempts
    /\ waits <= maxScrollAttempts
    /\ exitReason = "cap" =>
          /\ cpc = "returned"
          /\ thrown = ""
          /\ result = emojisWithNames
          /\ scans = maxScrollAttempts

\* C5: collect always terminates, after at most 50 scans and 50 scrolls, and
\* at the cap it returns what it accumulated as a normal result.
C5_CapTermination == []RoundsBounded /\ <>Terminated

\* A run that hit the cap and returned descriptors.
C5_Witness ==
    /\ exitReason = "cap"
    /\ cpc = "returned"
    /\ scrolls = maxScrollAttempts
    /\ Len(result) > 0

\* C6: with the scroller or the section absent collect fails with the error
\* naming the missing element (the scroller first), before any scan, scroll
\* or wait, each lookup made once.
C6_StructuralNotFound ==
    /\ (cpc # "start" /\ ~scrollerPresent) =>
          /\ cpc = "failed"
          /\ thrown = "Emoji picker container not found"
          /\ lookups = 1
    /\ (cpc # "start" /\ scrollerPresent /\ ~sectionPresent) =>
          /\ cpc = "failed"
          /\ thrown = "Server emoji section not found"
          /\ lookups = 2
    /\ cpc = "failed" =>
          /\ ~(scrollerPresent /\ sectionPresent)
          /\ scans = 0 /\ scrolls = 0 /\ waits = 0
          /\ result = << >>

\* Both elements absent: the error names the scroller.
C6_Witness ==
    /\ cpc = "failed"
    /\ ~scrollerPresent
    /\ ~sectionPresent
    /\ Len(catalog) > 0

\* The CDN thumbnails rendered in the section are all in the result.
RenderedHarvested ==
    \A i \in Visible(catalog, renderPos) :
        IsCdnEmoji[catalog[i]] => Descriptors[catalog[i]].url \in UrlsOf(result)

\* C19 (as claimed): however the loop ends, when collect returns every
\* scroll was followed by a scan, so that what the scrolls rendered is in
\* the result.
C19_EveryScrollScanned ==
    cpc = "returned" =>
        /\ scans = scrolls + 1
        /\ RenderedHarvested

\* C19 (amended): a scan follows every scroll and its wait, except the scroll
\* of the 50th round. A loop ended by the boundary or by stagnation returns
\* after a scan, with what is rendered in the result; a loop ended by the cap
\* returns after the 50th scroll and wait, without a scan.
C19_ScrollThenScan ==
    /\ cpc \in {"loop", "waiting"} => scans = scrolls /\ exitReason = ""
    /\ cpc = "loop" => waits = scrolls
    /\ cpc = "waiting" => waits = scrolls - 1
    /\ (cpc = "returned" /\ exitReason \in {"boundary", "stagnation"}) =>
          /\ scans = scrolls + 1
          /\ waits = scrolls
          /\ RenderedHarvested
    /\ (cpc = "returned" /\ exitReason = "cap") =>
          /\ scans = maxScrollAttempts
          /\ scrolls = maxScrollAttempts
          /\ waits = maxScrollAttempts

\* The cap reached while the last scroll rendered a thumbnail that no scan
\* met: it is not in the result.
C19_Witness ==
    /\ cpc = "returned"
    /\ exitReason = "cap"
    /\ scans = scrolls
    /\ ~RenderedHarvested

\* The list and the set agree and the counters are in range.
ListAndSetAgree ==
    /\ Len(emojisWithNames) = Cardinality(emojiData)
    /\ emojiData = UrlsOf(emojisWithNames)
    /\ noNewEmojisCount \in 0..StagnationLimit
    /\ scrollAttempts \in 0..maxScrollAttempts

\* C20 (as claimed): in every state of the loop the list and the set agree,
\* the counters are in range and the scrolls made number the round counter.
C20_ScrollsEqualRounds ==
    /\ ListAndSetAgree
    /\ scrolls = scrollAttempts

\* C20 (amended): in every state the list and the set agree and the
\* counters are in range; neither the list nor the set ever shrinks; the
\* scrolls made number the round counter at the start of a round and at the
\* return, and one more during the settle wait.
C20_ListSetCounters ==
    /\ [](/\ ListAndSetAgree
          /\ cpc \in {"start", "loop", "returned", "failed"} => scrolls = scrollAttempts
          /\ cpc = "waiting" => scrolls = scrollAttempts + 1)
    /\ [][/\ emojiData \subseteq emojiData'
          /\ Len(emojisWithNames) <= Len(emojisWithNames')
          /\ SubSeq(emojisWithNames', 1, Len(emojisWithNames)) = emojisWithNames]_vars

\* A wait after a second round that grew the list: two scrolls made, one
\* round counted, two descriptors in the list and in the set.
C20_Witness ==
    /\ cpc = "waiting"
    /\ scrolls = 2
    /\ scrollAttempts = 1
    /\ added > 0
    /\ Len(emojisWithNames) >= 2
    /\ Cardinality(emojiData) = Len(emojisWithNames)

\* ------------------------------------------------------- callback claims

\* C11: a thumbnail URL with a size parameter (size= and digits) gives a
\* descriptor URL that is the thumbnail URL with size=512 in place of the
\* first such parameter, its whole digit run included, and nothing else
\* changed; the descriptor URL has the animation marker exactly when the
\* thumbnail URL has it.
C11_SizeNormalized ==
    built # << >> =>
        LET src == img.src
            url == built[1].url
            IsParam(j) == src[j] = "size=" /\ j < Len(src) /\ src[j + 1] \in Digit
        IN  /\ (\E j \in 1..Len(src) : IsParam(j)) =>
                  \E i \in 1..Len(src), k \in 1..Len(src) :
                      /\ IsParam(i)
                      /\ \A j \in 1..(i - 1) : ~IsParam(j)
                      /\ k > i
                      /\ \A m \in (i + 1)..k : src[m] \in Digit
                      /\ k = Len(src) \/ src[k + 1] \notin Digit
                      /\ url = SubSeq(src, 1, i - 1) \o <<"size=", "5", "1", "2">>
                                  \o SubSeq(src, k + 1, Len(src))
            /\ (\E j \in 1..Len(url) : url[j] = "animated=true")
                  <=> (\E j \in 1..Len(src) : src[j] = "animated=true")

\* A thumbnail URL with two size parameters: only the first became size=512.
C11_Witness ==
    /\ built # << >>
    /\ img.src = CdnEmojis \o <<"/", "1", "?", "size=", "7", "size=", "7">>
    /\ built[1].url = CdnEmojis \o <<"/", "1", "?", "size=", "5", "1", "2", "size=", "7">>

\* C14: a descriptor name holds only characters of [A-Za-z0-9_-]; it is the
\* label without one leading and one trailing colon, each other character
\* outside the class replaced by "_", so that no colon of the label is a
\* character of the name.
C14_NameSanitized ==
    built # << >> =>
        LET alt == img.alt
            name == built[1].name
            lead == IF Len(alt) > 0 /\ alt[1] = ":" THEN 1 ELSE 0
            trail == IF Len(alt) > lead /\ alt[Len(alt)] = ":" THEN 1 ELSE 0
        IN  /\ \A i \in 1..Len(name) : name[i] \in NameChars
            /\ \A i \in 1..Len(name) : name[i] # ":"
            /\ Len(name) = Len(alt) - lead - trail
            /\ \A i \in 1..Len(name) :
                  name[i] = IF alt[i + lead] \in NameChars THEN alt[i + lead] ELSE "_"
            /\ (Len(alt) >= 2 /\ alt[1] = ":" /\ alt[Len(alt)] = ":") =>
                  Len(name) = Len(alt) - 2

\* A label wrapped in colons around a character outside the class.
C14_Witness ==
    /\ built # << >>
    /\ img.alt = <<":", "/", ":">>
    /\ built[1].name = <<"_">>

\* ------------------------------------------------------- pipeline claims

\* The console.error lines of this call that name item i.
Failures(i) == Cardinality({k \in 1..Len(errLog) : errLog[k].index = i + 1})

\* The items the loop has left behind.
Handled == {i \in 0..(Len(emojis) - 1) : i < index \/ ppc = "done"}

\* C2: whatever items fail (fetch, empty payload, decode or encode, empty
\* output, write), every item without fault has its file written and no
\* failure line, every item with such a fault has no file written and exactly
\* one failure line, and the call returns having attempted every item.
C2_Isolation ==
    /\ \A i \in Handled :
          /\ outcome[i] = "ok" =>
                /\ i \in Saved
                /\ FilePath(emojis[i + 1], i) \in DOMAIN files
                /\ Failures(i) = 0
          /\ outcome[i] = "early" =>
                /\ i \notin Saved
                /\ Failures(i) = 1
    /\ \A i \in 0..(Len(emojis) - 1) : i \notin Handled /\ i # index => Failures(i) = 0
    /\ ppc = "done" => Len(fetchLog) = Len(emojis)

\* Three items, the second refused with a non-success status: the first and
\* the third are written, one failure line names the second.
C2_Witness ==
    /\ ppc = "done"
    /\ calls = 1
    /\ Len(emojis) = 3
    /\ outcome = [i \in 0..2 |-> IF i = 1 THEN "early" ELSE "ok"]
    /\ Saved = {0, 2}
    /\ Len(errLog) = 1
    /\ errLog[1].index = 2
    /\ errLog[1].message = FetchError("Not Found")

\* C7: the items are attempted in input order, each once, one operation in
\* flight at a time, and an item's fetch starts only after every earlier item
\* was read back or had its failure caught.
C7_Sequential ==
    /\ Cardinality(inFlight) <= 1
    /\ fetchLog = [k \in 1..Len(fetchLog) |-> k - 1]
    /\ ppc = "done" => Len(fetchLog) = Len(emojis)
    /\ \A o \in inFlight :
          /\ o.index = index
          /\ o.index < Len(emojis)
          /\ \A j \in 0..(o.index - 1) :
                \/ j \in verified /\ Failures(j) = 0
                \/ Failures(j) = 1

\* The third item's fetch in flight after one item was written and read back
\* and one failed.
C7_Witness ==
    /\ inFlight = {Op("fetch", 2)}
    /\ 0 \in verified
    /\ Failures(1) = 1
    /\ fetchLog = <<0, 1, 2>>

\* C8 (as claimed): after a call on an empty folder the folder holds one
\* file per item processed without a logged failure. Stated for the calls
\* in which no read-back was rejected.
C8_OneFilePerSuccess ==
    (calls = 1 /\ ppc = "done" /\ \A i \in DOMAIN outcome : outcome[i] # "read") =>
        Cardinality(DOMAIN files)
            = Cardinality({i \in 0..(Len(emojis) - 1) : Failures(i) = 0})

\* C9 (as claimed): an item goes to baseDir/folder/<name>.webp, with the
\* positional name emoji_<i+1> in place of an empty sanitised name.
C9_Destination ==
    \A k \in 1..Len(writeLog) :
        LET i == writeLog[k].index
            name == IF emojis[i + 1].name = << >> THEN PositionalName(i)
                    ELSE emojis[i + 1].name
        IN  writeLog[k].path = PathJoin(OutputBaseDir, server.folder, name \o WebpExt)

\* C10 (as claimed): after the second call the set of paths on disk is the
\* one the first call left.
C10_SamePaths == (calls = 2 /\ ppc = "done") => DOMAIN files = pathsAfterFirst

\* C10 (amended): the second call removes no file, writes each item to the
\* path the first call used for it, attempts every item, and leaves the set
\* of paths unchanged when it writes the items the first call wrote.
C10_Idempotent ==
    calls = 2 =>
        /\ pathsAfterFirst \subseteq DOMAIN files
        /\ \A k \in 1..Len(writeLog) :
              writeLog[k].index \in savedFirst => writeLog[k].path \in pathsAfterFirst
        /\ ppc = "done" => Len(fetchLog) = Len(emojis)
        /\ (ppc = "done" /\ Saved = savedFirst) => DOMAIN files = pathsAfterFirst

\* A second call that wrote again the two files of the first.
C10_Witness ==
    /\ calls = 2
    /\ ppc = "done"
    /\ Cardinality(savedFirst) = 2
    /\ Saved = savedFirst
    /\ Cardinality(pathsAfterFirst) = 2
    /\ Len(writeLog) = 2

\* The item whose read-back has just completed, if any: its sizes are the
\* ones the state holds until the next item is encoded.
JustVerified ==
    {i \in verified : index = i + 1 /\ ppc \in {"fetch", "body", "sharp", "done"}}

\* C12 (as claimed): when the size read back differs from the length of the
\* encoded image a mismatch warning is logged; the item is not reported as
\* failed, its file is kept and the loop goes on.
C12_MismatchWarned ==
    \A i \in JustVerified :
        fileSize # resizedLen =>
            /\ sizeLine.level = "warn"
            /\ Failures(i) = 0
            /\ FilePath(emojis[i + 1], i) \in DOMAIN files

\* The folder of the server.
ServerDir == OutputBaseDir \o <<"/">> \o server.folder

\* A path made of the server's folder, one separator and a base name that
\* is neither empty nor a dot segment and holds no separator.
DirectlyInside(p) ==
    LET n == Len(ServerDir)
        base == SubSeq(p, n + 2, Len(p))
    IN  /\ Len(p) > n + 1
        /\ SubSeq(p, 1, n) = ServerDir
        /\ p[n + 1] = "/"
        /\ \A j \in 1..Len(base) : base[j] # "/"
        /\ base \notin {<<".">>, <<".", ".">>}

\* C13: every file the pipeline writes for descriptors the collector builds
\* lies directly inside baseDir/folder: the names hold only characters of
\* [A-Za-z0-9_-], so none brings a separator or a parent segment.
C13_InsideFolder ==
    /\ \A i \in 1..Len(emojis) : \A j \in 1..Len(emojis[i].name) :
          emojis[i].name[j] \in NameChars
    /\ \A k \in 1..Len(writeLog) : DirectlyInside(writeLog[k].path)
    /\ \A p \in DOMAIN files : DirectlyInside(p)

\* The file of the thumbnail labelled :../b c: was written.
C13_Witness ==
    \E k \in 1..Len(writeLog) :
        /\ emojis[writeLog[k].index + 1] = Descriptors[T5]
        /\ writeLog[k].path = ServerDir \o <<"/", "_", "_", "_", "b", "_", "c", ".webp">>
        /\ writeLog[k].path \in DOMAIN files

\* ------------------------------------------------------------ run claims

\* The collector is inside extractEmojiUrls: a lookup, a scan, a scroll or
\* a settle wait is being made or is still to come.
CollectorActive == cpc \in {"start", "loop", "waiting"}

\* The pipeline is inside downloadAndProcessEmojis.
PipelineActive == ppc \in {"start", "fetch", "body", "sharp", "write", "read"}

\* The folder of the k-th configured server.
FolderOf(k) == OutputBaseDir \o <<"/">> \o Servers[k].folder

\* The path lies in the folder of the k-th configured server.
InFolderOf(p, k) ==
    /\ Len(p) > Len(FolderOf(k))
    /\ SubSeq(p, 1, Len(FolderOf(k)) + 1) = FolderOf(k) \o <<"/">>

\* C15: servers are handled one at a time. The collector works only while
\* the run awaits extractEmojiUrls and the pipeline only while it awaits
\* downloadAndProcessEmojis, never both, and both for the server the loop
\* is at; navigation starts with nothing of an earlier server pending and
\* its picker closed; the servers before the current one ran to the end of
\* their iteration, in order; a step writes only into the folder of the
\* current server.
C15_OneServerAtATime ==
    /\ [](/\ ~(CollectorActive /\ PipelineActive)
          /\ CollectorActive => opc = "extracting" /\ inFlight = {}
          /\ PipelineActive =>
                /\ opc = "downloading"
                /\ server = Servers[serverIdx]
                /\ emojis = result
          /\ Cardinality(inFlight) <= 1
          /\ opc \notin {"extracting", "downloading"} =>
                ~CollectorActive /\ ~PipelineActive /\ inFlight = {}
          /\ opc \in {"navigateToServer", "navigateToChannel", "openEmojiPicker"} =>
                /\ pickerOpen =>
                      opc = "openEmojiPicker" /\ awaiting.line \in {141, 146, 147, 148}
                /\ completed = [k \in 1..(serverIdx - 1) |-> k]
          /\ \A c \in callLog : c[1] <= serverIdx
          /\ \A p \in DOMAIN files : \E k \in 1..serverIdx : InFolderOf(p, k))
    /\ [][/\ files' # files =>
                /\ opc = "downloading"
                /\ \A p \in DOMAIN files' :
                      (p \notin DOMAIN files \/ files'[p] # files[p]) =>
                          InFolderOf(p, serverIdx)
          /\ serverIdx' # serverIdx =>
                /\ serverIdx' = serverIdx + 1
                /\ ~pickerOpen
                /\ ~CollectorActive /\ ~PipelineActive /\ inFlight = {}
                /\ completed = [k \in 1..serverIdx |-> k]]_vars

\* A write for the second server is awaited, the first server's file being
\* on disk and its iteration over.
C15_Witness ==
    /\ serverIdx = 2
    /\ opc = "downloading"
    /\ ppc = "write"
    /\ Op("write", 0) \in inFlight
    /\ completed = <<1>>
    /\ \E p \in DOMAIN files : InFolderOf(p, 1)
    /\ scans > 0

\* The run is over: the function's promise has settled.
RunOver == opc \in {"ended", "rejected"}

\* The last line logged by index.ts.
LastLine == console[Len(console)]

\* The try block ran to its end.
TryCompleted == closeCalls = 1 /\ failure = NoFailure

\* C16 (as claimed): the run ends by reporting a count of the servers
\* processed: after a run whose try block ran to its end the last line
\* logged holds the number of completed servers.
C16_FinalCount ==
    TryCompleted => Includes(LastLine, Decimal(Len(completed)))

\* C16 (amended): no error leaves downloadAndProcessEmojis, whatever the
\* number of items that failed in it, so the run is never aborted by it;
\* a run whose try block ran to its end has completed every server and its
\* last line is the fixed sentence of line 72, which holds no count; that
\* sentence is logged at most once, and only last.
C16_FinalLine ==
    /\ ppc # "threw"
    /\ failure.step # "downloadAndProcessEmojis"
    /\ TryCompleted =>
          /\ LastLine = FinalLine
          /\ completed = [k \in 1..Len(Servers) |-> k]
    /\ \A i \in 1..Len(console) : console[i] = FinalLine => i = Len(console)
    /\ ~Includes(FinalLine, Decimal(Len(Servers)))

\* The run ended with the final line although an item failed in each of
\* the two servers.
C16_Witness ==
    /\ opc = "ended"
    /\ LastLine = FinalLine
    /\ failedItems = 2
    /\ completed = <<1, 2>>

\* The lines of console.error('An error occurred:', ...) logged so far.
ErrorLines == {i \in 1..Len(console) : console[i][1] = "An error occurred:"}

\* The steps of an iteration before downloadAndProcessEmojis.
StepsBeforeProcess ==
    {"navigateToServer", "navigateToChannel", "openEmojiPicker", "extractEmojiUrls"}

\* C17: when navigation, opening the picker or extractEmojiUrls fails for
\* the k-th server, downloadAndProcessEmojis is never called for it, no
\* call is made for a later server, the final line is never logged, the
\* error is logged once (by the catch clause) and the files on disk stay as
\* they were; a failed extractEmojiUrls is always taken as such a failure.
C17_AbortsRun ==
    /\ cpc = "failed" /\ opc # "extracting" =>
          /\ failure.step = "extractEmojiUrls"
          /\ failure.message = thrown
    /\ failure.step \in StepsBeforeProcess =>
          /\ opc \in {"catch", "finally", "closing", "ended", "rejected"}
          /\ serverIdx = failure.server
          /\ <<failure.server, "downloadAndProcessEmojis">> \notin callLog
          /\ \A c \in callLog : c[1] <= failure.server
          /\ \A i \in 1..Len(console) : console[i] # FinalLine
          /\ ~PipelineActive /\ ~CollectorActive
          /\ files = filesAtThrow
          /\ \A p \in DOMAIN files : \E k \in 1..(failure.server - 1) : InFolderOf(p, k)
          /\ Cardinality(ErrorLines) = IF opc = "catch" THEN 0 ELSE 1
          /\ opc # "catch" => LastLine = ErrorLine(failure.message)

\* The section of the second server was not found: the run ended with the
\* error logged, the first server's file on disk.
C17_Witness ==
    /\ opc = "ended"
    /\ failure.server = 2
    /\ failure.step = "extractEmojiUrls"
    /\ cpc = "failed"
    /\ files # << >>
    /\ LastLine = ErrorLine(thrown)

\* C18 (as claimed): once the browser is launched, browser.close has been
\* called exactly once when the run is over, and never more than once.
C18_ClosedOnce ==
    /\ closeCalls <= 1
    /\ browser # "none" /\ RunOver => closeCalls = 1

====
